---- MODULE Spec2Model ----
(***************************************************************************)
(* Model of src/main.rs: the process-wide DBManager (a OnceCell holding a  *)
(* bb8 pool) and the Todo entity with its save / get / delete statements.  *)
(* Callers are concurrent async tasks; every backend-touching operation is *)
(* split at its suspension points (pool checkout, statement, return).      *)
(***************************************************************************)
EXTENDS Integers, Sequences, FiniteSets, TLC

\* ------------------------------------------------------------- bounds
Callers == {"c1", "c2"}

\* number of identifiers Uuid::new_v4 hands out in one run
MaxIds == 1
\* largest pool_max_size a configuration carries
MaxPoolSize == 2
\* number of pools DBManager::new builds in one run
MaxPools == 2

\* ---------------------------------------------------------- constants
\* resolution of a timestamptz column, in nanoseconds
NanosPerMicro == 1000
\* identifier of the row another client of the database left in the table
LegacyId == 0

None == {}
Some(x) == {x}

PriorityLevel == {"Low", "Medium", "High"}
Tasks == {"Publish this draft"}
\* the priorities callers construct with (main: PriorityLevel::High)
NewPriorities == {"High"}
\* wall-clock readings: one on a microsecond boundary, one between two
Instants == {NanosPerMicro, NanosPerMicro + NanosPerMicro \div 2}
NewIds == 1..MaxIds
AllIds == {LegacyId} \cup NewIds
PoolIds == 1..MaxPools
\* the expirations callers construct with (main: None)
NewExpirations == {None, Some(NanosPerMicro + NanosPerMicro \div 2)}

\* ------------------------------------------------------------ results
NoResult == [kind |-> "None", err |-> "", cause |-> "", val |-> << >>]
Ok(v) == [kind |-> "Ok", err |-> "", cause |-> "", val |-> v]
Err(e, why) == [kind |-> "Err", err |-> e, cause |-> why, val |-> << >>]
Panic(why) == [kind |-> "Panic", err |-> "", cause |-> why, val |-> << >>]

\* the caller's view of a finished operation: the value itself is moved out
Returned(r) == [r EXCEPT !.val = << >>]

\* where a caller stands once an operation handed r back: a panic unwinds it,
\* and an Err leaves it through the `?` that follows every call in main; either
\* way its locals are dropped
After(r) == CASE r.kind = "Panic" -> "panicked"
              [] r.kind = "Err" -> "failed"
              [] OTHER -> "idle"

\* ------------------------------------------------- column conversions
\* DateTime<Utc> -> timestamptz: whole microseconds since the epoch
TruncMicros(t) == (t \div NanosPerMicro) * NanosPerMicro
TimestampToSql(t) == TruncMicros(t)
OptTimestampToSql(o) == {TimestampToSql(t) : t \in o}

ToRow_without_completed_at(t) ==
    [todo_id |-> t.id,
     todo_task |-> Some(t.task),
     todo_priority |-> Some(t.priority),
     todo_created_at |-> Some(TruncMicros(t.created_at)),
     todo_expired_at |-> {TruncMicros(x) : x \in t.expired_at},
     todo_completed_at |-> None]

\* the six parameters of the insert statement, as column values
ToRow(t) ==
    [todo_id |-> t.id,
     todo_task |-> Some(t.task),
     todo_priority |-> Some(t.priority),
     todo_created_at |-> Some(TimestampToSql(t.created_at)),
     todo_expired_at |-> OptTimestampToSql(t.expired_at),
     todo_completed_at |-> OptTimestampToSql(t.completed_at)]

TheOne(s) == CHOOSE x \in s : TRUE

\* TryFrom<&Row> for Todo: columns read in the code's order, first failure wins
TryFrom(row) ==
    IF row.todo_task = None THEN Err("PostgresError", "todo_task")
    ELSE IF row.todo_created_at = None THEN Err("PostgresError", "todo_created_at")
    ELSE IF row.todo_priority = None \/ ~(row.todo_priority \subseteq PriorityLevel)
        THEN Err("PostgresError", "todo_priority")
    ELSE Ok(<<[id |-> row.todo_id,
               task |-> TheOne(row.todo_task),
               priority |-> TheOne(row.todo_priority),
               created_at |-> TheOne(row.todo_created_at),
               expired_at |-> row.todo_expired_at,
               completed_at |-> row.todo_completed_at]>>)

\* ------------------------------------------------------------- entity
Todo_new(id, task, priority, expired_at, now) ==
    [id |-> id, task |-> task, priority |-> priority, created_at |-> now,
     expired_at |-> expired_at, completed_at |-> None]

toggle_complete_restamps(t, now) ==
    [t EXCEPT !.completed_at = IF t.completed_at # None THEN None ELSE Some(now),
              !.created_at = now]

toggle_complete(t, now) ==
    [t EXCEPT !.completed_at = IF t.completed_at # None THEN None ELSE Some(now)]

\* ---------------------------------------------------------- statements
RowsOf(tbl, id) == SelectSeq(tbl, LAMBDA r : r.todo_id = id)
RowsNotOf(tbl, id) == SelectSeq(tbl, LAMBDA r : r.todo_id # id)

Upsert_always_inserts(tbl, row) == Append(tbl, row)

\* insert ... on conflict (id) do update set <every column>
Upsert(tbl, row) ==
    IF \E i \in DOMAIN tbl : tbl[i].todo_id = row.todo_id
    THEN [i \in DOMAIN tbl |-> IF tbl[i].todo_id = row.todo_id THEN row ELSE tbl[i]]
    ELSE Append(tbl, row)

DeleteWhere_unfiltered(tbl, id) == << >>

\* delete from todo where id = $1
DeleteWhere(tbl, id) == RowsNotOf(tbl, id)

\* --------------------------------------------------------------- pool
OnceCell_set_overwrites(cell, v) == Some(v)

OnceCell_set(cell, v) == IF cell = None THEN Some(v) ELSE cell

DBManager_get_recoverable(cell) ==
    IF cell = None THEN Err("ConnectionError", "uninitialised") ELSE Ok(<<TheOne(cell)>>)

DBManager_get(cell) == IF cell = None THEN Panic("unwrap on None") ELSE Ok(<<TheOne(cell)>>)

CanCheckout_unbounded(out, max_size) == TRUE

CanCheckout(out, max_size) == out < max_size

NoOp == [name |-> "", id |-> LegacyId, pg_params |-> "", pool_max_size |-> 0, build |-> ""]
NoStmt == [err |-> "", rows |-> << >>, saw |-> "none", sawVal |-> None]
NoWrite == [kind |-> "none", val |-> None]

LegacyRow ==
    [todo_id |-> LegacyId, todo_task |-> None, todo_priority |-> Some("Low"),
     todo_created_at |-> Some(NanosPerMicro), todo_expired_at |-> None,
     todo_completed_at |-> None]

VARIABLES
    instance,    \* DB_MANAGER_INSTANCE: None or Some(DBManager)
    checkedOut,  \* per pool: connections currently checked out
    nextPool,    \* pools built so far
    table,       \* the todo table, in backend order
    nextId,      \* identifiers drawn so far
    pc,          \* per caller: position inside its current operation
    op,          \* per caller: the operation in flight (or the last one)
    todo,        \* per caller: its Todo value, None or Some(T)
    built,       \* per caller: the DBManager new() returned, before set
    mgr,         \* per caller: the &'static DBManager that get() returned
    stmt,        \* per caller: what the statement returned
    res,         \* per caller: what the operation returned
    lastWrite    \* history: per identifier, the last committed write

vars == <<instance, checkedOut, nextPool, table, nextId, pc, op, todo, built,
          mgr, stmt, res, lastWrite>>

Init ==
    /\ instance = None
    /\ checkedOut = [p \in PoolIds |-> 0]
    /\ nextPool = 0
    /\ table \in {<< >>, <<LegacyRow>>}
    /\ nextId = 0
    /\ pc = [c \in Callers |-> "idle"]
    /\ op = [c \in Callers |-> NoOp]
    /\ todo = [c \in Callers |-> None]
    /\ built = [c \in Callers |-> None]
    /\ mgr = [c \in Callers |-> None]
    /\ stmt = [c \in Callers |-> NoStmt]
    /\ res = [c \in Callers |-> NoResult]
    /\ lastWrite = [i \in AllIds |-> NoWrite]

\* ------------------------------------------------------ DBManager::new
\* new_from_stringlike(..).expect(..), then Pool::builder().build(..).await?
DBManager_new(pg_params, pool_max_size, build, poolId) ==
    IF pg_params # "valid" THEN Panic("unable build PostgresConnectionManager")
    ELSE IF build # "ok" THEN Err("PostgresError", "Build")
    ELSE Ok(<<[pool |-> poolId, pool_max_size |-> pool_max_size]>>)

\* main, first half of line 267: DBManager::new(options).await?
InitNew(c, pg_params, pool_max_size, build) ==
    /\ pc[c] = "idle"
    /\ nextPool < MaxPools
    /\ LET r == DBManager_new(pg_params, pool_max_size, build, nextPool + 1) IN
        /\ op' = [op EXCEPT ![c] = [name |-> "initialize", id |-> LegacyId,
                                    pg_params |-> pg_params,
                                    pool_max_size |-> pool_max_size, build |-> build]]
        /\ stmt' = [stmt EXCEPT ![c] = NoStmt]
        /\ IF r.kind = "Ok"
           THEN /\ built' = [built EXCEPT ![c] = Some(r.val[1])]
                /\ nextPool' = nextPool + 1
                /\ pc' = [pc EXCEPT ![c] = "init_set"]
                /\ res' = [res EXCEPT ![c] = NoResult]
           ELSE /\ UNCHANGED <<built, nextPool>>
                /\ pc' = [pc EXCEPT ![c] = After(r)]
                /\ res' = [res EXCEPT ![c] = r]
    /\ UNCHANGED <<instance, checkedOut, table, nextId, todo, mgr, lastWrite>>

\* main, second half of line 267: let _ = DB_MANAGER_INSTANCE.set(..)
InitSet(c) ==
    /\ pc[c] = "init_set"
    /\ instance' = OnceCell_set(instance, TheOne(built[c]))
    /\ built' = [built EXCEPT ![c] = None]
    /\ pc' = [pc EXCEPT ![c] = "idle"]
    /\ res' = [res EXCEPT ![c] = Ok(<< >>)]
    /\ UNCHANGED <<checkedOut, nextPool, table, nextId, op, todo, mgr, stmt, lastWrite>>

\* ------------------------------------------------- in-memory operations
New(c, task, priority, expired_at, now) ==
    /\ pc[c] = "idle"
    /\ nextId < MaxIds
    /\ nextId' = nextId + 1
    /\ todo' = [todo EXCEPT ![c] = Some(Todo_new(nextId + 1, task, priority, expired_at, now))]
    /\ UNCHANGED <<instance, checkedOut, nextPool, table, pc, op, built, mgr, stmt,
                   res, lastWrite>>

Toggle(c, now) ==
    /\ pc[c] = "idle"
    /\ todo[c] # None
    /\ todo' = [todo EXCEPT ![c] = Some(toggle_complete(TheOne(todo[c]), now))]
    /\ UNCHANGED <<instance, checkedOut, nextPool, table, nextId, pc, op, built, mgr,
                   stmt, res, lastWrite>>

\* ------------------------------------------------- backend operations
\* entry of save / delete / get_all / get_by_id: DBManager::get().await
Begin(c, name, id) ==
    /\ pc[c] = "idle"
    /\ name \in {"save", "delete"} => todo[c] # None /\ id = TheOne(todo[c]).id
    /\ name = "get_all" => id = LegacyId
    /\ LET g == DBManager_get(instance) IN
        /\ stmt' = [stmt EXCEPT ![c] = NoStmt]
        /\ IF g.kind = "Ok"
           THEN /\ mgr' = [mgr EXCEPT ![c] = Some(g.val[1])]
                /\ op' = [op EXCEPT ![c] = [NoOp EXCEPT !.name = name, !.id = id]]
                /\ pc' = [pc EXCEPT ![c] = "acquire"]
                /\ res' = [res EXCEPT ![c] = NoResult]
                /\ UNCHANGED todo
           ELSE /\ mgr' = [mgr EXCEPT ![c] = None]
                /\ op' = [op EXCEPT ![c] = NoOp]
                /\ pc' = [pc EXCEPT ![c] = After(g)]
                /\ res' = [res EXCEPT ![c] = Returned(g)]
                /\ todo' = [todo EXCEPT ![c] = None]
    /\ UNCHANGED <<instance, checkedOut, nextPool, table, nextId, built, lastWrite>>

\* DBManager::connection: self.pool.get().await succeeded
Acquire(c) ==
    /\ pc[c] = "acquire"
    /\ LET m == TheOne(mgr[c]) IN
        /\ CanCheckout(checkedOut[m.pool], m.pool_max_size)
        /\ checkedOut' = [checkedOut EXCEPT ![m.pool] = @ + 1]
    /\ pc' = [pc EXCEPT ![c] = "exec"]
    /\ UNCHANGED <<instance, nextPool, table, nextId, op, todo, built, mgr, stmt, res,
                   lastWrite>>

\* DBManager::connection: self.pool.get().await.context(ConnectionError)?
AcquireFail(c) ==
    /\ pc[c] = "acquire"
    /\ pc' = [pc EXCEPT ![c] = After(Err("ConnectionError", "pool"))]
    /\ res' = [res EXCEPT ![c] = Err("ConnectionError", "pool")]
    /\ op' = [op EXCEPT ![c] = NoOp]
    /\ todo' = [todo EXCEPT ![c] = None]
    /\ mgr' = [mgr EXCEPT ![c] = None]
    /\ UNCHANGED <<instance, checkedOut, nextPool, table, nextId, built, stmt, lastWrite>>

Statement_insert_do_nothing(name, id, value, tbl) ==
    CASE name = "save" ->
            [table |-> IF RowsOf(tbl, id) = << >> THEN Append(tbl, ToRow(value)) ELSE tbl,
             rows |-> << >>, err |-> ""]
      [] name = "delete" -> [table |-> DeleteWhere(tbl, id), rows |-> << >>, err |-> ""]
      [] name = "get_all" -> [table |-> tbl, rows |-> tbl, err |-> ""]
      [] name = "get_by_id" ->
            [table |-> tbl, rows |-> RowsOf(tbl, id),
             err |-> IF Len(RowsOf(tbl, id)) = 1 THEN "" ELSE "RowCount"]

\* conn.query / conn.query_one: the statement runs at the backend
Statement(name, id, value, tbl) ==
    CASE name = "save" -> [table |-> Upsert(tbl, ToRow(value)), rows |-> << >>, err |-> ""]
      [] name = "delete" -> [table |-> DeleteWhere(tbl, id), rows |-> << >>, err |-> ""]
      [] name = "get_all" -> [table |-> tbl, rows |-> tbl, err |-> ""]
      [] name = "get_by_id" ->
            [table |-> tbl, rows |-> RowsOf(tbl, id),
             err |-> IF Len(RowsOf(tbl, id)) = 1 THEN "" ELSE "RowCount"]

Exec(c, fail) ==
    /\ pc[c] = "exec"
    /\ pc' = [pc EXCEPT ![c] = "ret"]
    /\ IF fail
       THEN /\ stmt' = [stmt EXCEPT ![c] = [NoStmt EXCEPT !.err = "Backend"]]
            /\ UNCHANGED <<table, lastWrite>>
       ELSE LET o == op[c]
                s == Statement(o.name, o.id, IF o.name = "save" THEN TheOne(todo[c]) ELSE NoOp,
                               table)
            IN
            /\ table' = s.table
            /\ stmt' = [stmt EXCEPT ![c] = [err |-> s.err, rows |-> s.rows,
                                            saw |-> lastWrite[o.id].kind,
                                            sawVal |-> lastWrite[o.id].val]]
            /\ lastWrite' =
                 IF o.name = "save"
                 THEN [lastWrite EXCEPT ![o.id] = [kind |-> "save", val |-> todo[c]]]
                 ELSE IF o.name = "delete"
                 THEN [lastWrite EXCEPT ![o.id] = [kind |-> "delete", val |-> None]]
                 ELSE lastWrite
    /\ UNCHANGED <<instance, checkedOut, nextPool, nextId, op, todo, built, mgr, res>>

\* Vec<Row> -> Vec<Todo> in get_all: rows.iter().map(|row| try_from(row).unwrap())
MapAll(rows) ==
    IF \E i \in DOMAIN rows : TryFrom(rows[i]).kind # "Ok"
    THEN Panic("unwrap on Err")
    ELSE Ok([i \in DOMAIN rows |-> TryFrom(rows[i]).val[1]])

\* what the operation hands back once query / query_one has returned
Outcome(name, s) ==
    IF s.err # "" THEN Err("PostgresError", s.err)
    ELSE CASE name = "get_all" -> MapAll(s.rows)
           [] name = "get_by_id" -> TryFrom(s.rows[1])
           [] OTHER -> Ok(<< >>)

\* query / query_one return: conn goes out of scope, then the caller maps the
\* rows; keep: the caller binds the Todo get_by_id returned instead of dropping it
Ret(c, keep) ==
    /\ pc[c] = "ret"
    /\ checkedOut' = [checkedOut EXCEPT ![TheOne(mgr[c]).pool] = @ - 1]
    /\ LET r == Outcome(op[c].name, stmt[c]) IN
        /\ res' = [res EXCEPT ![c] = Returned(r)]
        /\ pc' = [pc EXCEPT ![c] = After(r)]
        /\ IF keep
           THEN /\ op[c].name = "get_by_id"
                /\ r.kind = "Ok"
                /\ todo' = [todo EXCEPT ![c] = Some(r.val[1])]
           ELSE todo' = [todo EXCEPT ![c] = IF r.kind = "Ok" THEN @ ELSE None]
    /\ op' = [op EXCEPT ![c] = NoOp]
    /\ mgr' = [mgr EXCEPT ![c] = None]
    /\ stmt' = [stmt EXCEPT ![c] = NoStmt]
    /\ UNCHANGED <<instance, nextPool, table, nextId, built, lastWrite>>

\* ---------------------------------------------------- specifications
\* Pool lifecycle, from process start: initialisation (possibly repeated or
\* racing) interleaved with operations that read the instance.
Next ==
    \E c \in Callers :
        \/ \E p \in {"valid", "invalid"}, n \in 1..MaxPoolSize, b \in {"ok", "fail"} :
                InitNew(c, p, n, b)
        \/ InitSet(c)
        \/ \E n \in {"get_all", "get_by_id"}, i \in AllIds : Begin(c, n, i)
        \/ Acquire(c)
        \/ AcquireFail(c)
        \/ \E f \in BOOLEAN : Exec(c, f)
        \/ Ret(c, FALSE)

Spec == Init /\ [][Next]_vars

\* Entity operations, from the state main reaches after line 267: one
\* DBManager installed, nothing checked out.
InitReady ==
    /\ \E n \in 1..MaxPoolSize : instance = Some([pool |-> 1, pool_max_size |-> n])
    /\ checkedOut = [p \in PoolIds |-> 0]
    /\ nextPool = 1
    /\ table \in {<< >>, <<LegacyRow>>}
    /\ nextId = 0
    /\ pc = [c \in Callers |-> "idle"]
    /\ op = [c \in Callers |-> NoOp]
    /\ todo = [c \in Callers |-> None]
    /\ built = [c \in Callers |-> None]
    /\ mgr = [c \in Callers |-> None]
    /\ stmt = [c \in Callers |-> NoStmt]
    /\ res = [c \in Callers |-> NoResult]
    /\ lastWrite = [i \in AllIds |-> NoWrite]

NextRepo ==
    \E c \in Callers :
        \/ \E t \in Tasks, pr \in NewPriorities, e \in NewExpirations,
              now \in Instants : New(c, t, pr, e, now)
        \/ \E now \in Instants : Toggle(c, now)
        \/ \E n \in {"save", "delete", "get_all", "get_by_id"}, i \in AllIds : Begin(c, n, i)
        \/ Acquire(c)
        \/ AcquireFail(c)
        \/ \E f \in BOOLEAN : Exec(c, f)
        \/ \E k \in BOOLEAN : Ret(c, k)

SpecRepo == InitReady /\ [][NextRepo]_vars

\* ------------------------------------------------------------ properties
RepoOps == {"save", "delete", "get_all", "get_by_id"}
Finished(c) == pc[c] \in {"idle", "panicked", "failed"}

\* a Todo as a timestamptz column can hold it: timestamps in whole microseconds
AtBackendPrecision(t) ==
    [t EXCEPT !.created_at = (@ \div NanosPerMicro) * NanosPerMicro,
              !.expired_at = {(x \div NanosPerMicro) * NanosPerMicro : x \in @},
              !.completed_at = {(x \div NanosPerMicro) * NanosPerMicro : x \in @}]

\* C1: the process-wide instance is set once and never replaced: once some
\* initialize has installed a DBManager every later set, sequential or racing,
\* leaves it in place, and every reference get() handed out is that instance.
C1_SetOnceNeverReplaced ==
    [][/\ instance # None => instance' = instance
       /\ \A c \in Callers : mgr'[c] # None => mgr'[c] = instance']_vars

\* C1 witness: two initialize calls built a pool each and both have run set.
C1_TwoInitializesDone ==
    /\ instance # None
    /\ nextPool >= 2
    /\ \A c \in Callers : pc[c] = "idle" /\ built[c] = None /\ op[c].name = "initialize"

\* C2: query and query_one give the connection back on every exit path: the
\* connections checked out of a pool are exactly those of the callers between
\* checkout and return, never more than pool_max_size, and none once no
\* operation is in flight.
C2_ConnectionsReturned ==
    /\ \A p \in PoolIds :
         checkedOut[p] = Cardinality({c \in Callers : /\ pc[c] \in {"exec", "ret"}
                                                       /\ mgr[c] # None
                                                       /\ TheOne(mgr[c]).pool = p})
    /\ \A m \in instance : checkedOut[m.pool] <= m.pool_max_size
    /\ (\A c \in Callers : Finished(c)) => \A p \in PoolIds : checkedOut[p] = 0

\* C2 witness: one caller came back from a failed statement, the other from a
\* row-count mismatch, and nothing is checked out.
C2_FailedStatementsReturned ==
    /\ \E c \in Callers : res[c] = Err("PostgresError", "Backend")
    /\ \E c \in Callers : res[c] = Err("PostgresError", "RowCount")
    /\ \A c \in Callers : pc[c] = "failed"
    /\ \A p \in PoolIds : checkedOut[p] = 0

\* C3 as stated: get_by_id, when the last committed write of that identifier
\* was save(T), returns a value field-equal to T as it was in memory.
C3_RoundTripExact ==
    \A c \in Callers :
        (pc[c] = "ret" /\ op[c].name = "get_by_id" /\ stmt[c].saw = "save"
            /\ stmt[c].err # "Backend")
        => Outcome(op[c].name, stmt[c]) = Ok(<<TheOne(stmt[c].sawVal)>>)

\* C3 amended: get_by_id, when the last committed write of that identifier was
\* save(T), returns T with every field as in memory except that the three
\* timestamps are cut to whole microseconds; a second save overwrites the
\* first, so the value loaded is the latest one saved.
C3_RoundTripAtBackendPrecision ==
    \A c \in Callers :
        (pc[c] = "ret" /\ op[c].name = "get_by_id" /\ stmt[c].saw = "save"
            /\ stmt[c].err # "Backend")
        => Outcome(op[c].name, stmt[c]) = Ok(<<AtBackendPrecision(TheOne(stmt[c].sawVal))>>)

\* C3 witness: a get_by_id read back a Todo that was saved, toggled and saved
\* again, and whose creation time is not a whole number of microseconds.
C3_LoadedAfterOverwrite ==
    \E c \in Callers :
        /\ pc[c] = "ret" /\ op[c].name = "get_by_id" /\ stmt[c].saw = "save"
        /\ stmt[c].err = ""
        /\ \E t \in stmt[c].sawVal :
              t.completed_at # None /\ t.created_at % NanosPerMicro # 0

\* C4: save never duplicates and is idempotent: after a save commits the table
\* holds exactly one row of that identifier, no identifier ever has two rows,
\* a save of the value the previous write already saved leaves the table as it
\* was, and get_all sees exactly one row of a saved identifier.
C4_SaveIdempotentNoDuplicate ==
    [][\A c \in Callers :
         (pc[c] = "exec" /\ pc'[c] = "ret" /\ stmt'[c].err = "") =>
            /\ \A i \in AllIds : Len(RowsOf(table', i)) <= 1
            /\ op[c].name = "save" =>
                 /\ Len(RowsOf(table', op[c].id)) = 1
                 /\ lastWrite[op[c].id] = [kind |-> "save", val |-> todo[c]]
                      => table' = table
            /\ op[c].name = "get_all" =>
                 \A i \in AllIds : lastWrite[i].kind = "save"
                                     => Len(RowsOf(stmt'[c].rows, i)) = 1]_vars

\* C4 witness: a caller has just committed a save of the very value the
\* previous write of that identifier saved.
C4_SavedTwice ==
    \E c \in Callers :
        /\ pc[c] = "ret" /\ op[c].name = "save" /\ stmt[c].err = ""
        /\ stmt[c].saw = "save" /\ stmt[c].sawVal = todo[c]
        /\ Len(RowsOf(table, op[c].id)) = 1

\* C5: a committed delete removes the row of its identifier and leaves the rows
\* of every other identifier as they were; while the delete is the last write
\* of the identifier, get_by_id fails with the row-count error and get_all
\* returns no row of it.
C5_DeleteRemovesOnlyItsRow ==
    [][\A c \in Callers :
         (pc[c] = "exec" /\ pc'[c] = "ret" /\ stmt'[c].err # "Backend") =>
            /\ op[c].name = "delete" =>
                 /\ RowsOf(table', op[c].id) = << >>
                 /\ RowsNotOf(table', op[c].id) = RowsNotOf(table, op[c].id)
            /\ (op[c].name = "get_by_id" /\ lastWrite[op[c].id].kind = "delete") =>
                 Outcome(op[c].name, stmt'[c]) = Err("PostgresError", "RowCount")
            /\ op[c].name = "get_all" =>
                 \A i \in AllIds : lastWrite[i].kind = "delete"
                                     => RowsOf(stmt'[c].rows, i) = << >>]_vars

\* C5 witness: a get_by_id ran after a delete of its identifier and found no
\* row, while the row of another identifier is still in the table.
C5_LookupAfterDelete ==
    \E c \in Callers :
        /\ pc[c] = "ret" /\ op[c].name = "get_by_id" /\ stmt[c].saw = "delete"
        /\ stmt[c].err = "RowCount"
        /\ \E i \in DOMAIN table : table[i].todo_id # op[c].id

\* C6: when two save calls for one identifier overlap and both statements have
\* committed, the table holds exactly one row of that identifier, and it is
\* the full row of the value that committed last, which is one of the two.
C6_LastWriteWins ==
    \A c, d \in Callers :
        (/\ c # d
         /\ pc[c] = "ret" /\ pc[d] = "ret"
         /\ op[c].name = "save" /\ op[d].name = "save" /\ op[c].id = op[d].id
         /\ stmt[c].err = "" /\ stmt[d].err = "")
        => /\ Len(RowsOf(table, op[c].id)) = 1
           /\ RowsOf(table, op[c].id)[1] \in {ToRow(TheOne(todo[c])), ToRow(TheOne(todo[d]))}
           /\ RowsOf(table, op[c].id)[1] = ToRow(TheOne(lastWrite[op[c].id].val))

\* C6 witness: two overlapping saves of one identifier with different values
\* have both committed.
C6_TwoSavesCommitted ==
    \E c, d \in Callers :
        /\ c # d
        /\ pc[c] = "ret" /\ pc[d] = "ret"
        /\ op[c].name = "save" /\ op[d].name = "save" /\ op[c].id = op[d].id
        /\ stmt[c].err = "" /\ stmt[d].err = ""
        /\ ToRow(TheOne(todo[c])) # ToRow(TheOne(todo[d]))

\* C7: an operation that reads the instance before any initialize has set it
\* panics and returns no error value; once the instance is set, the read
\* returns it and the operation goes on to the pool.
C7_GetBeforeInitPanics ==
    [][\A c \in Callers :
         (pc[c] = "idle" /\ pc'[c] \notin {"idle", "init_set"}
            /\ op'[c].name # "initialize") =>
            IF instance = None
            THEN pc'[c] = "panicked" /\ res'[c].kind = "Panic"
            ELSE pc'[c] = "acquire" /\ mgr'[c] = instance]_vars

\* C7 witness: one caller panicked reading the unset instance, and after an
\* initialize the other caller's read returned the instance.
C7_PanickedThenServed ==
    \E c, d \in Callers :
        /\ pc[c] = "panicked" /\ res[c] = Panic("unwrap on None")
        /\ pc[d] = "acquire" /\ mgr[d] = instance /\ instance # None

\* C8: get_all is all or nothing with a typed error: when a returned row does
\* not map to a Todo the call returns an error value.
C8_MappingFailureIsTypedError ==
    \A c \in Callers :
        (/\ pc[c] = "ret" /\ op[c].name = "get_all" /\ stmt[c].err = ""
         /\ \E i \in DOMAIN stmt[c].rows : TryFrom(stmt[c].rows[i]).kind # "Ok")
        => Outcome(op[c].name, stmt[c]).kind = "Err"

\* C9: initialize returns an error value whenever the pool cannot be built,
\* for invalid connection parameters as for a failed build, and then installs
\* nothing.
C9_BuildFailureIsReturnedError ==
    \A c \in Callers :
        (/\ op[c].name = "initialize" /\ Finished(c)
         /\ (op[c].pg_params # "valid" \/ op[c].build # "ok"))
        => res[c].kind = "Err"

\* C10: toggle_complete changes the completion timestamp and nothing else,
\* absent to present and present to absent, and leaves the table as it was.
C10_ToggleTouchesOnlyCompletion ==
    [][\A c \in Callers :
         (/\ pc[c] = "idle" /\ pc'[c] = "idle" /\ nextId' = nextId
          /\ todo[c] # None /\ todo'[c] # todo[c]) =>
            LET old == TheOne(todo[c])
                new == TheOne(todo'[c])
            IN /\ new = [old EXCEPT !.completed_at = new.completed_at]
               /\ (old.completed_at = None) = (new.completed_at # None)
               /\ table' = table
               /\ lastWrite' = lastWrite]_vars

\* C10 witness: a saved Todo was toggled in memory and its row still has no
\* completion time.
C10_ToggledNotYetSaved ==
    \E c \in Callers : \E t \in todo[c] :
        /\ t.completed_at # None
        /\ RowsOf(table, t.id) # << >>
        /\ RowsOf(table, t.id)[1].todo_completed_at = None
        /\ lastWrite[t.id].kind = "save"
====
